---- MODULE Spec2Model ----
(***************************************************************************)
(* The build DAG of snakemake (snakemake/dag.py): resolution of producer   *)
(* jobs (update, update_), graph mutation (delete_job, replace_job),       *)
(* need-run analysis, the ready set, finish and dynamic re-expansion.      *)
(*                                                                         *)
(* A job is a rule with a wildcard binding; the rules of the model have    *)
(* no wildcards, so a job is identified by the name of its rule.           *)
(* dict/defaultdict values are functions whose DOMAIN is the set of keys.  *)
(***************************************************************************)
EXTENDS Integers, Sequences, FiniteSets, TLC

VARIABLES
    \* ---- fields of DAG (dag.py:32-59)
    dependencies,     \* job -> (producer -> files)
    depending,        \* job -> (consumer -> files)
    needrun,          \* _needrun
    reason,           \* _reason: job -> Reason
    finished,         \* _finished
    dynamic,          \* _dynamic
    len,              \* _len
    rules,            \* self.rules
    targetjobs,
    ready_jobs,       \* _ready_jobs
    forcerules,
    omitforce,
    priority,         \* the jobs whose priority was raised to HIGHEST_PRIORITY
    \* ---- constructor arguments and collaborators
    workflow,         \* workflow.rules
    targetfiles,
    targetrules,
    forcefiles,
    ignore_ambiguity,
    priorityfiles,
    incomplete,       \* the jobs workflow.persistence.incomplete() reports
    hashorder,        \* iteration order of this process's sets: "fwd" or "rev"
    dryrun,           \* the executor does not create the outputs of the jobs it runs
    mtime,            \* file system: file -> mtime, 0 when the file does not exist
    \* ---- the caller's position
    phase,            \* "new", "run", "failed"
    error,            \* the exception that ended init or finish, "none" otherwise
    running,          \* jobs the executor has started and not yet finished
    \* ---- an earlier run of init with the same arguments and file system
    first             \* its outcome, as a set: empty when there was none

dagvars == <<dependencies, depending, needrun, reason, finished, dynamic, len,
             rules, targetjobs, ready_jobs, forcerules, omitforce, priority>>
envvars == <<workflow, targetfiles, targetrules, forcefiles, ignore_ambiguity,
             priorityfiles, incomplete, hashorder, dryrun>>
vars == <<dagvars, envvars, mtime, phase, error, running, first>>

None == "None"

-----------------------------------------------------------------------------
(* Bounds of the model *)

\* the most rules a workflow holds
MaxRules == 3
\* the most targets (rules and files) a run names
MaxTargets == 2
\* the most settings of a run that differ from the defaults of DAG.__init__
\* and of the executor
MaxOptions == 1

-----------------------------------------------------------------------------
(* Files and rules the workflows are drawn from *)

\* "D" is a dynamic output pattern, "d" the file it expands to
Files == {"a", "b", "c", "e", "D", "d"}
FileOrder == <<"a", "b", "c", "e", "D", "d">>

Rule(in, out, dynin, dynout, temp, rank, branch) ==
    [input |-> in, output |-> out, dynamic_input |-> dynin,
     dynamic_output |-> dynout, temp_output |-> temp, rank |-> rank,
     branch |-> branch]

RuleDef ==
    ( "src"    :> Rule({},    {"a"}, {},    {},    {"a"}, 1, None)
   @@ "a2b"    :> Rule({"a"}, {"b"}, {},    {},    {"b"}, 1, None)
   @@ "b2c"    :> Rule({"b"}, {"c"}, {},    {},    {},    2, None)
   @@ "a2c"    :> Rule({"a"}, {"c"}, {},    {},    {},    1, None)
   @@ "e2c"    :> Rule({"e"}, {"c"}, {},    {},    {},    1, None)
   @@ "c2a"    :> Rule({"c"}, {"a"}, {},    {},    {},    1, None)
   @@ "split"  :> Rule({"a"}, {"D"}, {},    {"D"}, {},    1, "split_")
   @@ "merge"  :> Rule({"D"}, {"c"}, {"D"}, {},    {},    1, "merge_")
   @@ "split_" :> Rule({"a"}, {"d"}, {},    {},    {},    1, None)
   @@ "merge_" :> Rule({"d"}, {"c"}, {},    {},    {},    1, None) )

RuleOrder == <<"src", "a2b", "b2c", "a2c", "e2c", "c2a", "split", "merge",
               "split_", "merge_">>
BaseRules == {"src", "a2b", "b2c", "a2c", "e2c", "c2a", "split", "merge"}
AllRules == DOMAIN RuleDef
Jobs == AllRules
Ranks == {RuleDef[r].rank : r \in AllRules}

\* the files a dynamic pattern expands to
Expansion(f) == IF f = "D" THEN {"d"} ELSE {}

-----------------------------------------------------------------------------
(* Iteration order of sets *)

RECURSIVE Reverse(_)
Reverse(s) == IF s = <<>> THEN <<>> ELSE Append(Reverse(Tail(s)), Head(s))

IterOrder(order) == IF hashorder = "fwd" THEN order ELSE Reverse(order)
\* iteration over a set of files / of rules or jobs
FileSeq(S) == LET In(x) == x \in S IN SelectSeq(IterOrder(FileOrder), In)
JobSeq(S) == LET In(x) == x \in S IN SelectSeq(IterOrder(RuleOrder), In)

Range(s) == {s[i] : i \in DOMAIN s}

-----------------------------------------------------------------------------
(* dict helpers *)

EmptyMap == [x \in {} |-> {}]
MapGet(m, k) == IF k \in DOMAIN m THEN m[k] ELSE EmptyMap
MapPut(m, k, v) == [x \in DOMAIN m \cup {k} |-> IF x = k THEN v ELSE m[x]]
MapDel(m, k) == [x \in DOMAIN m \ {k} |-> m[x]]
FilesGet(m, k) == IF k \in DOMAIN m THEN m[k] ELSE {}

-----------------------------------------------------------------------------
(* Job and IOFile (snakemake/jobs.py, snakemake/io.py) *)

exists(f) == mtime[f] > 0
input(job) == RuleDef[job].input
output(job) == RuleDef[job].output
dynamic_input(job) == RuleDef[job].dynamic_input
dynamic_output(job) == RuleDef[job].dynamic_output
temp_output(job) == RuleDef[job].temp_output
is_producer(rule, file) == file \in RuleDef[rule].output
\* job < other in the job order
JobLt(job, other) == RuleDef[job].rank < RuleDef[other].rank

\* the files a job writes when it runs
expanded_output(job) ==
    UNION {IF f \in dynamic_output(job) THEN Expansion(f) ELSE {f} : f \in output(job)}
missing_input(job) == {f \in input(job) : ~exists(f)}
\* a dynamic output is missing when nothing it expands to is there
OutputMissing(job, f) ==
    IF f \in dynamic_output(job)
    THEN \A x \in Expansion(f) : ~exists(x)
    ELSE ~exists(f)
missing_output(job, requested) ==
    {f \in output(job) \cap requested : OutputMissing(job, f)}
SetMin(S) == CHOOSE x \in S : \A y \in S : x <= y
\* the oldest existing output, 0 (None) when there is none
output_mintime(job) ==
    LET ts == {mtime[f] : f \in {x \in expanded_output(job) : exists(x)}}
    IN  IF ts = {} THEN 0 ELSE SetMin(ts)
is_newer(f, t) == mtime[f] > t
\* the wildcard values read from the expanded outputs on disk
dynamic_wildcards(job) ==
    {x \in UNION {Expansion(f) : f \in dynamic_output(job)} : exists(x)}

EmptyReason ==
    [forced |-> FALSE, noio |-> FALSE, missing_output |-> {},
     incomplete_output |-> {}, updated_input |-> {}, updated_input_run |-> {}]
\* Reason.__bool__ without the forced flag
ReasonBoolNoForced(r) ==
    \/ r.updated_input # {}
    \/ r.missing_output # {}
    \/ r.updated_input_run # {}
    \/ r.noio

\* Reason.__bool__
ReasonBool(r) ==
    \/ r.updated_input # {}
    \/ r.missing_output # {}
    \/ r.forced
    \/ r.updated_input_run # {}
    \/ r.noio

-----------------------------------------------------------------------------
(* The DAG as a value, threaded through the steps of one operation *)

Dag == [dependencies |-> dependencies, depending |-> depending,
        needrun |-> needrun, reason |-> reason, finished |-> finished,
        dynamic |-> dynamic, len |-> len, rules |-> rules,
        targetjobs |-> targetjobs, ready_jobs |-> ready_jobs,
        forcerules |-> forcerules, omitforce |-> omitforce,
        priority |-> priority]

Deps(d, job) == MapGet(d.dependencies, job)
Rdeps(d, job) == MapGet(d.depending, job)

\* an edge recorded in dependencies only: the update of depending is left out
AddEdgeForwardOnly(d, job, job_, files) ==
    [d EXCEPT
       !.dependencies = MapPut(@, job,
            MapPut(MapGet(@, job), job_, FilesGet(MapGet(@, job), job_) \cup files))]

\* dependencies[job][job_].update(files); depending[job_][job].update(files)
AddEdge(d, job, job_, files) ==
    [d EXCEPT
       !.dependencies = MapPut(@, job,
            MapPut(MapGet(@, job), job_, FilesGet(MapGet(@, job), job_) \cup files)),
       !.depending = MapPut(@, job_,
            MapPut(MapGet(@, job_), job, FilesGet(MapGet(@, job_), job) \cup files))]

-----------------------------------------------------------------------------
(* delete_job (dag.py:392-411) *)

RECURSIVE delete_job(_, _, _)
RECURSIVE DeleteProducers(_, _, _, _)

\* the loop of lines 396-400 over the producers of job
DeleteProducers(d, job, producers, recursive) ==
    IF producers = <<>> THEN d
    ELSE LET job_ == Head(producers)
             d1 == [d EXCEPT !.depending =
                        MapPut(@, job_, MapDel(MapGet(@, job_), job))]
             d2 == IF DOMAIN Rdeps(d1, job_) = {} /\ recursive
                   THEN delete_job(d1, job_, TRUE)
                   ELSE d1
         IN  DeleteProducers(d2, job, Tail(producers), recursive)

delete_job(d, job, recursive) ==
    LET consumers == DOMAIN Rdeps(d, job)
        d1 == [d EXCEPT
                 !.dependencies = [j \in DOMAIN @ |->
                     IF j \in consumers THEN MapDel(@[j], job) ELSE @[j]],
                 !.depending = MapDel(@, job)]
        \* lines 401-411, on the DAG d2 the loop over the producers leaves
        Removed(d2) ==
            LET inrun == job \in d2.needrun
            IN  [d2 EXCEPT
                   !.dependencies = MapDel(@, job),
                   !.len = IF inrun THEN @ - 1 ELSE @,
                   !.needrun = @ \ {job},
                   !.reason = IF inrun THEN [@ EXCEPT ![job] = EmptyReason] ELSE @,
                   !.finished = @ \ {job},
                   !.dynamic = @ \ {job},
                   !.ready_jobs = @ \ {job}]
    IN  Removed(DeleteProducers(d1, job, JobSeq(DOMAIN Deps(d1, job)), recursive))

-----------------------------------------------------------------------------
(* file2jobs, collect_potential_dependencies (dag.py:495-504, 437-447) *)

\* the candidate jobs of a file, in the iteration order of self.rules;
\* the empty sequence stands for MissingRuleException
file2jobs(d, targetfile) ==
    JobSeq({rule \in d.rules : is_producer(rule, targetfile)})

rule2job(targetrule) == targetrule

\* the input files that have a candidate, in the iteration order of set(job.input)
collect_potential_dependencies(d, job) ==
    FileSeq({file \in input(job) : file2jobs(d, file) # <<>>})

-----------------------------------------------------------------------------
(* update, update_ (dag.py:174-259) *)

\* sorted(jobs, reverse=not self.ignore_ambiguity): a stable sort by the job order
RECURSIVE SortedFrom(_, _)
SortedFrom(jobs, ranks) ==
    IF ranks = {} THEN <<>>
    ELSE LET k == IF ignore_ambiguity
                  THEN CHOOSE x \in ranks : \A y \in ranks : x <= y
                  ELSE CHOOSE x \in ranks : \A y \in ranks : x >= y
             HasRank(j) == RuleDef[j].rank = k
         IN  SelectSeq(jobs, HasRank) \o SortedFrom(jobs, ranks \ {k})
sorted(jobs) == SortedFrom(jobs, Ranks)

RECURSIVE update(_, _, _, _, _)
RECURSIVE update_(_, _, _, _)
RECURSIVE UpdateLoop(_, _, _, _, _, _, _, _, _)
RECURSIVE UpdateFiles(_, _, _, _, _, _)

\* lines 210-216: what update returns or raises after its loop
UpdateEnd(d, producer, exceptions, cycles) ==
    IF producer = None /\ cycles
    THEN [d |-> d, status |-> "CyclicGraph", producer |-> None]
    ELSE IF producer = None /\ exceptions
    THEN [d |-> d, status |-> "MissingInput", producer |-> None]
    ELSE [d |-> d, status |-> "ok", producer |-> producer]

\* lines 182-209: the loop over the sorted candidates, from index i (1-based)
UpdateLoop(d, jobs, i, file, visited, skip_until_dynamic, producer, exceptions, cycles) ==
    IF i > Len(jobs) THEN UpdateEnd(d, producer, exceptions, cycles)
    ELSE LET job == jobs[i]
             \* lines 188-201, r being the outcome of update_(job)
             Expanded(r) ==
                IF r.status = "MissingInput" \/ r.status = "CyclicGraph"
                THEN UpdateLoop(r.d, jobs, i + 1, file, visited, skip_until_dynamic,
                                producer, TRUE, cycles)
                ELSE IF r.status # "ok"
                THEN [d |-> r.d, status |-> r.status, producer |-> None]
                ELSE IF i > 1 /\ (JobLt(job, jobs[i - 1]) \/ ignore_ambiguity)
                THEN UpdateEnd(r.d, producer, exceptions, cycles)
                ELSE IF i > 1 /\ producer # None
                THEN [d |-> r.d, status |-> "AmbiguousRule", producer |-> None]
                ELSE UpdateLoop(r.d, jobs, i + 1, file, visited, skip_until_dynamic,
                                job, exceptions, cycles)
         IN
      IF file \in input(job) \/ job \in visited
      THEN UpdateLoop(d, jobs, i + 1, file, visited, skip_until_dynamic,
                      producer, exceptions, TRUE)
      ELSE Expanded(update_(d, job, visited, skip_until_dynamic))

update(d, jobs, file, visited, skip_until_dynamic) ==
    UpdateLoop(d, sorted(jobs), 1, file, visited, skip_until_dynamic,
               None, FALSE, FALSE)

\* lines 233-240: the loop over the potential dependencies of job;
\* producer maps each resolved file to its producer
UpdateFiles(d, job, files, visited, skip_until_dynamic, producer) ==
    IF files = <<>> THEN [d |-> d, status |-> "ok", producer |-> producer]
    ELSE LET file == Head(files)
             \* r is the outcome of update for file
             Resolved(r) ==
                IF r.status = "ok"
                THEN UpdateFiles(r.d, job, Tail(files), visited, skip_until_dynamic,
                                 MapPut(producer, file, r.producer))
                ELSE IF r.status = "MissingInput" \/ r.status = "CyclicGraph"
                THEN UpdateFiles(r.d, job, Tail(files), visited, skip_until_dynamic,
                                 producer)
                ELSE [d |-> r.d, status |-> r.status, producer |-> producer]
         IN  Resolved(update(d, file2jobs(d, file), file, visited,
                             skip_until_dynamic \/ file \in dynamic_input(job)))

\* lines 242-244: record the resolved producers in both edge maps
RECURSIVE AddProducers(_, _, _, _)
AddProducers(d, job, producer, files) ==
    IF files = <<>> THEN d
    ELSE AddProducers(AddEdge(d, job, producer[Head(files)], {Head(files)}),
                      job, producer, Tail(files))

update_(d, job, visited, skip_until_dynamic) ==
    IF job \in DOMAIN d.dependencies THEN [d |-> d, status |-> "ok"]
    ELSE
    LET visited1 == visited \cup {job}
        d1 == [d EXCEPT !.dependencies = MapPut(@, job, EmptyMap)]
        skip == skip_until_dynamic /\ dynamic_output(job) = {}
        \* lines 242-259, r being the outcome of the loop over the inputs
        Resolved(r) ==
            LET d2 == AddProducers(r.d, job, r.producer, FileSeq(DOMAIN r.producer))
            IN  IF r.status # "ok" THEN [d |-> r.d, status |-> r.status]
                ELSE IF missing_input(job) \ DOMAIN r.producer # {}
                THEN [d |-> delete_job(d2, job, FALSE), status |-> "MissingInput"]
                ELSE [d |-> IF skip THEN [d2 EXCEPT !.dynamic = @ \cup {job}] ELSE d2,
                      status |-> "ok"]
    IN  Resolved(UpdateFiles(d1, job, collect_potential_dependencies(d1, job),
                             visited1, skip, EmptyMap))

-----------------------------------------------------------------------------
(* bfs (dag.py:449-461) *)

RECURSIVE BfsLoop(_, _, _, _, _)
\* stop is the set of jobs the stop criterion holds for
BfsLoop(direction, queue, visited, stop, out) ==
    IF queue = <<>> THEN out
    ELSE LET job == Head(queue) IN
         IF job \in stop
         THEN BfsLoop(direction, Tail(queue), visited, stop, out)
         ELSE LET new == JobSeq(DOMAIN MapGet(direction, job) \ visited)
              IN  BfsLoop(direction, Tail(queue) \o new, visited \cup Range(new),
                          stop, Append(out, job))

bfs(direction, jobs, stop) == BfsLoop(direction, jobs, Range(jobs), stop, <<>>)

\* the property jobs (dag.py:85-89)
jobs(d) == bfs(d.dependencies, JobSeq(d.targetjobs), {})

\* the property needrun_jobs (dag.py:91-96)
needrun_jobs(d) ==
    LET InNeedrun(job) == job \in d.needrun
    IN  SelectSeq(bfs(d.dependencies, JobSeq(d.targetjobs), d.finished), InNeedrun)

\* noneedrun_finished (dag.py:111-116), as the set of jobs it holds for
noneedrun_finished(d) == (Jobs \ d.needrun) \cup d.finished

-----------------------------------------------------------------------------
(* update_needrun (dag.py:261-320) *)

RECURSIVE FirstMintime(_)
FirstMintime(js) ==
    IF js = <<>> THEN 0
    ELSE IF output_mintime(Head(js)) # 0 THEN output_mintime(Head(js))
    ELSE FirstMintime(Tail(js))

\* the nested output_mintime (lines 263-267): the first job met that has one
dag_output_mintime(d, job) == FirstMintime(bfs(d.depending, <<job>>, {}))

\* the files job's consumers take from it: set(chain(*depending[job].values()))
RequestedOf(d, job) == UNION {Rdeps(d, job)[c] : c \in DOMAIN Rdeps(d, job)}

\* the nested needrun (lines 269-295): the reason of job after the seeding pass
SeedReason(d, job) ==
    LET r == d.reason[job]
        r1 == IF (job \notin d.omitforce /\ job \in d.forcerules)
                 \/ forcefiles \cap output(job) # {}
              THEN [r EXCEPT !.forced = TRUE]
              ELSE IF job \in d.targetjobs
              THEN IF output(job) = {}
                   THEN IF input(job) # {}
                        THEN [r EXCEPT !.updated_input_run =
                                  @ \cup {f \in input(job) : ~exists(f)}]
                        ELSE [r EXCEPT !.noio = TRUE]
                   ELSE [r EXCEPT !.missing_output = @ \cup
                            (IF job \in targetrules
                             THEN missing_output(job, output(job))
                             ELSE missing_output(job,
                                      RequestedOf(d, job) \cup targetfiles))]
              ELSE r
        t == dag_output_mintime(d, job)
    IN  IF ~ReasonBool(r1) /\ t # 0
        THEN [r1 EXCEPT !.updated_input =
                 @ \cup {f \in input(job) : exists(f) /\ is_newer(f, t)}]
        ELSE r1

RECURSIVE SeedAll(_, _)
SeedAll(d, js) ==
    IF js = <<>> THEN d
    ELSE SeedAll([d EXCEPT !.reason[Head(js)] = SeedReason(d, Head(js))], Tail(js))

\* lines 303-312: the producers of job
RECURSIVE NeedrunUp(_, _, _, _)
NeedrunUp(st, job, producers, d0) ==
    IF producers = <<>> THEN st
    ELSE LET job_ == Head(producers)
             files == Deps(d0, job)[job_]
             missing == missing_output(job_, files)
             incompl == IF job_ \in incomplete THEN output(job_) ELSE {}
             rsn == [st.reason EXCEPT
                       ![job_].missing_output = @ \cup missing,
                       ![job_].incomplete_output = @ \cup incompl]
             enq == (missing # {} \/ incompl # {}) /\ job_ \notin st.visited
         IN  NeedrunUp([reason |-> rsn,
                        visited |-> IF enq THEN st.visited \cup {job_} ELSE st.visited,
                        queue |-> IF enq THEN Append(st.queue, job_) ELSE st.queue],
                       job, Tail(producers), d0)

RECURSIVE NeedrunDown(_, _, _, _)
RECURSIVE NeedrunDownRecordOnly(_, _, _, _)

\* lines 314-318 without the append to the queue: updated_input_run is recorded
\* on the consumers of job, and they are not queued
NeedrunDownRecordOnly(st, job, consumers, d0) ==
    IF consumers = <<>> THEN st
    ELSE LET job_ == Head(consumers)
             files == Rdeps(d0, job)[job_]
             rsn == [st.reason EXCEPT ![job_].updated_input_run = @ \cup files]
         IN  NeedrunDownRecordOnly([reason |-> rsn, visited |-> st.visited,
                                    queue |-> st.queue],
                                   job, Tail(consumers), d0)

\* lines 314-318: the consumers of job
NeedrunDown(st, job, consumers, d0) ==
    IF consumers = <<>> THEN st
    ELSE LET job_ == Head(consumers)
             files == Rdeps(d0, job)[job_]
             rsn == [st.reason EXCEPT ![job_].updated_input_run = @ \cup files]
             enq == job_ \notin st.visited
         IN  NeedrunDown([reason |-> rsn,
                          visited |-> IF enq THEN st.visited \cup {job_} ELSE st.visited,
                          queue |-> IF enq THEN Append(st.queue, job_) ELSE st.queue],
                         job, Tail(consumers), d0)

\* lines 299-318: the propagation loop
RECURSIVE NeedrunLoop(_, _, _, _, _)
NeedrunLoop(d, queue, visited, nr, rsn) ==
    IF queue = <<>> THEN [d EXCEPT !.needrun = nr, !.reason = rsn]
    ELSE LET job == Head(queue)
             st0 == [reason |-> rsn, visited |-> visited, queue |-> Tail(queue)]
             Continue(st2) ==
                NeedrunLoop(d, st2.queue, st2.visited, nr \cup {job}, st2.reason)
         IN  Continue(NeedrunDown(NeedrunUp(st0, job, JobSeq(DOMAIN Deps(d, job)), d),
                                  job, JobSeq(DOMAIN Rdeps(d, job)), d))

update_needrun(d) ==
    LET \* line 320
        Counted(d2) == [d2 EXCEPT !.len = Cardinality(d2.needrun)]
        \* lines 297-318, d1 being the DAG after the seeding pass
        Propagate(d1) ==
            LET Seeded(job) == ReasonBool(d1.reason[job])
                queue == SelectSeq(jobs(d), Seeded)
            IN  Counted(NeedrunLoop(d1, queue, Range(queue), d1.needrun, d1.reason))
    IN  Propagate(SeedAll(d, jobs(d)))

-----------------------------------------------------------------------------
(* update_priority, update_ready, postprocess, _ready (dag.py:322-344) *)

priorityrules == {}

update_priority(d) ==
    LET Prioritized(job) == job \in priorityrules
                             \/ priorityfiles \cap output(job) # {}
        roots == SelectSeq(needrun_jobs(d), Prioritized)
    IN  [d EXCEPT !.priority =
            @ \cup Range(bfs(d.dependencies, roots, noneedrun_finished(d)))]

dag_ready(d, job) == (DOMAIN Deps(d, job) \cap d.needrun) \subseteq d.finished

update_ready(d) ==
    [d EXCEPT !.ready_jobs = @ \cup
        {job \in Range(jobs(d)) \cap d.needrun :
            job \notin d.finished /\ dag_ready(d, job)}]

postprocess(d) == update_ready(update_priority(update_needrun(d)))

-----------------------------------------------------------------------------
(* replace_rule, replace_job, update_dynamic (dag.py:365-390, 413-435) *)

replace_rule(d, rule, newrule) ==
    [d EXCEPT !.rules = (@ \ {rule}) \cup {newrule},
              !.forcerules = IF rule \in @ THEN @ \cup {newrule} ELSE @]

\* lines 419-422 left out: no consumer of the old job is attached to newjob
ReattachNone(d, newjob, consumers, old) == d

\* lines 419-422: the consumers of the old job are attached to newjob
RECURSIVE Reattach(_, _, _, _)
Reattach(d, newjob, consumers, old) ==
    IF consumers = <<>> THEN d
    ELSE LET job_ == Head(consumers)
         IN  Reattach(IF dynamic_input(job_) = {}
                      THEN AddEdge(d, job_, newjob, old[job_])
                      ELSE d,
                      newjob, Tail(consumers), old)

replace_job(d, job, newjob) ==
    LET old == Rdeps(d, job)
        d1 == IF job \in d.finished THEN [d EXCEPT !.finished = @ \cup {newjob}] ELSE d
        \* lines 418-425, r being the outcome of update([newjob])
        Updated(r) ==
            LET d3 == Reattach(r.d, newjob, JobSeq(DOMAIN old), old)
                d4 == IF job \in d3.targetjobs
                      THEN [d3 EXCEPT !.targetjobs = (@ \ {job}) \cup {newjob}]
                      ELSE d3
            IN  IF r.status # "ok" THEN [d |-> r.d, status |-> r.status]
                ELSE [d |-> d4, status |-> "ok"]
    IN  Updated(update(delete_job(d1, job, TRUE), <<newjob>>, None, {}, FALSE))

\* lines 382-389: the unfinished jobs downstream that have dynamic input
RECURSIVE ReplaceDepending(_, _)
ReplaceDepending(d, js) ==
    IF js = <<>> THEN [d |-> d, status |-> "ok"]
    ELSE LET job_ == Head(js)
             newrule_ == RuleDef[job_].branch
             d1 == replace_rule(d, job_, newrule_)
             \* r is the outcome of replace_job(job_, newjob_)
             Replaced(r) ==
                IF r.status # "ok" THEN r ELSE ReplaceDepending(r.d, Tail(js))
         IN  IF dynamic_input(job_) = {} \/ newrule_ = None
             THEN ReplaceDepending(d, Tail(js))
             ELSE IF job_ \in d1.dynamic
             THEN ReplaceDepending(d1, Tail(js))
             ELSE Replaced(replace_job(d1, job_, newrule_))

\* newjob is None when there are no dynamic wildcards
update_dynamic(d, job) ==
    IF dynamic_wildcards(job) = {}
    THEN [d |-> d, status |-> "ok", newjob |-> None]
    ELSE
    LET Unfinished(job_) == job_ \notin d.finished
        downstream == SelectSeq(bfs(d.depending, <<job>>, {}), Unfinished)
        newrule == RuleDef[job].branch
        d1 == replace_rule(d, job, newrule)
        \* line 390, r2 being the outcome of the loop over the jobs downstream
        Returns(r2) ==
            [d |-> r2.d, status |-> r2.status,
             newjob |-> IF r2.status = "ok" THEN newrule ELSE None]
        \* lines 382-389, r1 being the outcome of replace_job(job, newjob)
        Replaced(r1) ==
            IF r1.status # "ok" THEN [d |-> r1.d, status |-> r1.status, newjob |-> None]
            ELSE Returns(ReplaceDepending(r1.d, downstream))
    IN  Replaced(replace_job(d1, job, newrule))

-----------------------------------------------------------------------------
(* finish (dag.py:346-363) *)

finish(d, job) ==
    LET d1 == [d EXCEPT !.finished = @ \cup {job}, !.ready_jobs = @ \ {job}]
        d2 == [d1 EXCEPT !.ready_jobs = @ \cup
                  {job_ \in DOMAIN Rdeps(d1, job) : dag_ready(d1, job_)}]
        \* lines 357-363, r being the outcome of update_dynamic(job)
        Updated(r) ==
            LET d3 == [r.d EXCEPT !.omitforce = @ \cup {r.newjob},
                                  !.needrun = @ \cup {r.newjob},
                                  !.finished = @ \cup {r.newjob}]
            IN  IF r.status # "ok" THEN [d |-> r.d, status |-> r.status]
                ELSE IF r.newjob = None THEN [d |-> r.d, status |-> "ok"]
                ELSE [d |-> postprocess(d3), status |-> "ok"]
    IN  IF dynamic_output(job) = {} THEN [d |-> d2, status |-> "ok"]
        ELSE Updated(update_dynamic(d2, job))

-----------------------------------------------------------------------------
(* handle_temp (dag.py:162-172) *)

\* needed without the test j != job: the job that just ran counts as a
\* consumer that still needs the file
neededIncludingSelf(d, job, job_, f) ==
    \E j \in DOMAIN Rdeps(d, job_) :
        f \in Rdeps(d, job_)[j] /\ j \notin d.finished

\* the nested needed (lines 164-166)
needed(d, job, job_, f) ==
    \E j \in DOMAIN Rdeps(d, job_) :
        f \in Rdeps(d, job_)[j] /\ j \notin d.finished /\ j # job

\* the files handle_temp(job) removes
handle_temp(d, job) ==
    UNION {{f \in temp_output(job_) \cap Deps(d, job)[job_] : ~needed(d, job, job_, f)}
           : job_ \in DOMAIN Deps(d, job)}

-----------------------------------------------------------------------------
(* init (dag.py:61-83) *)

\* lines 63-65
RECURSIVE InitRules(_, _)
InitRules(d, rs) ==
    IF rs = <<>> THEN [d |-> d, status |-> "ok"]
    ELSE LET Updated(r) ==
                IF r.status # "ok" THEN [d |-> r.d, status |-> r.status]
                ELSE InitRules([r.d EXCEPT !.targetjobs = @ \cup {r.producer}], Tail(rs))
         IN  Updated(update(d, <<rule2job(Head(rs))>>, None, {}, FALSE))

RECURSIVE InitFiles(_, _, _)
RECURSIVE InitFilesFailFast(_, _, _)

\* lines 67-76 with the MissingRuleException of a file not caught: init stops
\* at the first target file that has no rule
InitFilesFailFast(d, fs, missing) ==
    IF fs = <<>> THEN [d |-> d, status |-> "ok"]
    ELSE LET file == Head(fs)
             cands == file2jobs(d, file)
             Updated(r) ==
                IF r.status # "ok" THEN [d |-> r.d, status |-> r.status]
                ELSE InitFilesFailFast([r.d EXCEPT !.targetjobs = @ \cup {r.producer}],
                                       Tail(fs), missing)
         IN  IF cands = <<>> THEN [d |-> d, status |-> "RuleException"]
             ELSE Updated(update(d, cands, file, {}, FALSE))

\* lines 67-76; missing counts the files that raised MissingRuleException
InitFiles(d, fs, missing) ==
    IF fs = <<>>
    THEN [d |-> d, status |-> IF missing # {} THEN "RuleException" ELSE "ok"]
    ELSE LET file == Head(fs)
             cands == file2jobs(d, file)
             Updated(r) ==
                IF r.status # "ok" THEN [d |-> r.d, status |-> r.status]
                ELSE InitFiles([r.d EXCEPT !.targetjobs = @ \cup {r.producer}],
                               Tail(fs), missing)
         IN  IF cands = <<>> THEN InitFiles(d, Tail(fs), missing \cup {file})
             ELSE Updated(update(d, cands, file, {}, FALSE))

\* lines 79-82: update_dynamic runs while the generator self.jobs is suspended
\* at its yield; on resumption the generator reads dependencies[job], which
\* makes the key of a job that was just deleted
RECURSIVE InitDynamic(_, _, _)
InitDynamic(d, queue, visited) ==
    IF queue = <<>> THEN [d |-> d, status |-> "ok"]
    ELSE LET job == Head(queue)
             \* the generator resumes, r being the outcome of the loop body
             Resumed(r) ==
                LET d1 == IF job \in DOMAIN r.d.dependencies THEN r.d
                          ELSE [r.d EXCEPT !.dependencies = MapPut(@, job, EmptyMap)]
                    new == JobSeq(DOMAIN Deps(d1, job) \ visited)
                IN  IF r.status # "ok" THEN [d |-> r.d, status |-> r.status]
                    ELSE InitDynamic(d1, Tail(queue) \o new, visited \cup Range(new))
         IN  IF dynamic_output(job) # {} /\ job \notin d.needrun
             THEN Resumed(update_dynamic(d, job))
             ELSE Resumed([d |-> d, status |-> "ok", newjob |-> None])

init(d) ==
    LET \* line 83
        AfterDynamic(r4) ==
            IF r4.status # "ok" THEN r4
            ELSE [d |-> postprocess(r4.d), status |-> "ok"]
        \* lines 79-82
        AfterNeedrun(d3) ==
            AfterDynamic(InitDynamic(d3, JobSeq(d3.targetjobs), d3.targetjobs))
        \* lines 75-77
        AfterFiles(r2) ==
            IF r2.status # "ok" THEN r2 ELSE AfterNeedrun(update_needrun(r2.d))
        \* lines 67-73
        AfterRules(r1) ==
            IF r1.status # "ok" THEN r1
            ELSE AfterFiles(InitFiles(r1.d, FileSeq(targetfiles), {}))
    IN  AfterRules(InitRules(d, JobSeq(targetrules)))

-----------------------------------------------------------------------------
(* The runs: what the caller constructs the DAG with *)

\* files written by a job that runs are newer than every file found at start
OldTime == 1
NewTime == OldTime + 1
Now == NewTime + 1

Workflows == {W \in SUBSET BaseRules : Cardinality(W) \in 1..MaxRules}
FilesOf(W) == UNION {RuleDef[r].input \cup RuleDef[r].output : r \in W}
\* the targets of a run: at most one target rule, and target files
Targets(W) ==
    {t \in [rules : SUBSET W, files : SUBSET {"b", "c"}] :
        /\ Cardinality(t.rules) <= 1
        /\ Cardinality(t.rules) + Cardinality(t.files) \in 1..MaxTargets}

\* the settings of a run; the first value of each is the default
Options ==
    {o \in [force : {"none", "all", "targets"}, ignore_ambiguity : {FALSE, TRUE},
            priorityfiles : {{}, {"c"}}, incomplete : {{}, {"a2b"}},
            hashorder : {"fwd", "rev"}, dryrun : {FALSE, TRUE}] :
        (IF o.force # "none" THEN 1 ELSE 0)
      + (IF o.ignore_ambiguity THEN 1 ELSE 0)
      + (IF o.priorityfiles # {} THEN 1 ELSE 0)
      + (IF o.incomplete # {} THEN 1 ELSE 0)
      + (IF o.hashorder # "fwd" THEN 1 ELSE 0)
      + (IF o.dryrun THEN 1 ELSE 0) <= MaxOptions}

\* a file system at start: patterns are never files, an input file may be
\* newer than the rest
FileSystems(W, tf) ==
    {m \in [Files -> 0..NewTime] :
        /\ m["D"] = 0
        /\ \A f \in Files : m[f] = NewTime => f = "a"
        /\ \A f \in Files \ (FilesOf(W) \cup tf \cup {"d"}) : m[f] = 0
        /\ m["d"] # 0 => "split" \in W}

\* DAG.__init__ (dag.py:20-59)
Init ==
    /\ workflow \in Workflows
    /\ rules = workflow
    /\ \E t \in Targets(workflow) :
          /\ targetrules = t.rules
          /\ targetfiles = t.files
    /\ \E o \in Options :
          /\ forcerules = CASE o.force = "all" -> workflow
                            [] o.force = "targets" -> targetrules
                            [] OTHER -> {}
          /\ forcefiles = IF o.force = "targets" THEN targetfiles ELSE {}
          /\ ignore_ambiguity = o.ignore_ambiguity
          /\ priorityfiles = o.priorityfiles
          /\ incomplete = o.incomplete \cap workflow
          /\ hashorder = o.hashorder
          /\ dryrun = o.dryrun
    /\ mtime \in FileSystems(workflow, targetfiles)
    /\ dependencies = EmptyMap
    /\ depending = EmptyMap
    /\ needrun = {}
    /\ reason = [j \in Jobs |-> EmptyReason]
    /\ finished = {}
    /\ dynamic = {}
    /\ len = 0
    /\ targetjobs = {}
    /\ ready_jobs = {}
    /\ omitforce = {}
    /\ priority = {}
    /\ phase = "new"
    /\ error = "none"
    /\ running = {}
    /\ first = {}

-----------------------------------------------------------------------------
(* The operations *)

SetDag(d) ==
    /\ dependencies' = d.dependencies
    /\ depending' = d.depending
    /\ needrun' = d.needrun
    /\ reason' = d.reason
    /\ finished' = d.finished
    /\ dynamic' = d.dynamic
    /\ len' = d.len
    /\ rules' = d.rules
    /\ targetjobs' = d.targetjobs
    /\ ready_jobs' = d.ready_jobs
    /\ forcerules' = d.forcerules
    /\ omitforce' = d.omitforce
    /\ priority' = d.priority

\* an operation ends: it returned, or it raised and the workflow is aborted
Ends(r) ==
    /\ SetDag(r.d)
    /\ error' = IF r.status = "ok" THEN "none" ELSE r.status
    /\ phase' = IF r.status = "ok" THEN "run" ELSE "failed"

\* dag.init()
DoInit ==
    /\ phase = "new"
    /\ Ends(init(Dag))
    /\ UNCHANGED <<envvars, mtime, running, first>>

\* dag.postprocess(), called again by the workflow
Postprocess ==
    /\ phase = "run"
    /\ Ends([d |-> postprocess(Dag), status |-> "ok"])
    /\ UNCHANGED <<envvars, mtime, running, first>>

\* The executor takes a ready job and runs it to completion: the job writes
\* its outputs and the executor's finish_job calls handle_temp(job). A dry
\* run does neither.
Run(job) ==
    /\ phase = "run"
    /\ job \in ready_jobs \ running
    /\ running' = running \cup {job}
    /\ mtime' = IF dryrun THEN mtime
                ELSE [f \in Files |->
                        IF f \in handle_temp(Dag, job) THEN 0
                        ELSE IF f \in expanded_output(job) THEN Now
                        ELSE mtime[f]]
    /\ UNCHANGED <<dagvars, envvars, phase, error, first>>

\* dag.finish(job) for a job the executor has run; _ready_jobs.remove(job)
\* raises KeyError when the job is no longer in the ready set
Finish(job) ==
    /\ phase = "run"
    /\ job \in running
    /\ running' = running \ {job}
    /\ IF job \in ready_jobs
       THEN Ends(finish(Dag, job))
       ELSE Ends([d |-> [Dag EXCEPT !.finished = @ \cup {job}], status |-> "KeyError"])
    /\ UNCHANGED <<envvars, mtime, first>>

Next ==
    \/ DoInit
    \/ Postprocess
    \/ \E job \in Jobs : Run(job)
    \/ \E job \in Jobs : Finish(job)

Spec == Init /\ [][Next]_vars

\* The executor alone drives the DAG: the scheduler loop takes ready jobs and
\* calls finish for each job that ran, until nothing is ready or running
NextExec ==
    \/ DoInit
    \/ \E job \in Jobs : Run(job)
    \/ \E job \in Jobs : Finish(job)

SpecExec == Init /\ [][NextExec]_vars

\* what a run of init produced: how it ended, the dependencies map (which
\* holds the producer selected for every file), the dynamic set and needrun
InitOutcome == <<error, dependencies, dynamic, needrun>>

\* The same run is started again in another process, whose sets iterate in
\* the other order: a DAG is constructed anew from the same arguments, with
\* the file system as it was, and the outcome of the first run is kept
Rerun ==
    /\ phase \in {"run", "failed"}
    /\ first = {}
    /\ first' = {InitOutcome}
    /\ hashorder' = IF hashorder = "fwd" THEN "rev" ELSE "fwd"
    /\ SetDag([dependencies |-> EmptyMap, depending |-> EmptyMap,
               needrun |-> {}, reason |-> [j \in Jobs |-> EmptyReason],
               finished |-> {}, dynamic |-> {}, len |-> 0, rules |-> workflow,
               targetjobs |-> {}, ready_jobs |-> {},
               forcerules |-> forcerules \cap workflow, omitforce |-> {},
               priority |-> {}])
    /\ phase' = "new"
    /\ error' = "none"
    /\ UNCHANGED <<workflow, targetfiles, targetrules, forcefiles,
                   ignore_ambiguity, priorityfiles, incomplete, dryrun,
                   mtime, running>>

\* init, and init again under the other iteration order
NextOrder ==
    \/ DoInit
    \/ Rerun

SpecOrder == Init /\ [][NextOrder]_vars

\* file systems in which the intermediate file b, like a, may be newer than
\* the rest
AgedFileSystems(W, tf) ==
    {m \in [Files -> 0..NewTime] :
        /\ m["D"] = 0
        /\ \A f \in Files : m[f] = NewTime => f \in {"a", "b"}
        /\ \A f \in Files \ (FilesOf(W) \cup tf \cup {"d"}) : m[f] = 0
        /\ m["d"] # 0 => "split" \in W}

\* DAG.__init__ with the default settings, on such a file system
InitAged ==
    /\ workflow \in Workflows
    /\ rules = workflow
    /\ \E t \in Targets(workflow) :
          /\ targetrules = t.rules
          /\ targetfiles = t.files
    /\ forcerules = {}
    /\ forcefiles = {}
    /\ ignore_ambiguity = FALSE
    /\ priorityfiles = {}
    /\ incomplete = {}
    /\ hashorder = "fwd"
    /\ dryrun = FALSE
    /\ mtime \in AgedFileSystems(workflow, targetfiles)
    /\ dependencies = EmptyMap
    /\ depending = EmptyMap
    /\ needrun = {}
    /\ reason = [j \in Jobs |-> EmptyReason]
    /\ finished = {}
    /\ dynamic = {}
    /\ len = 0
    /\ targetjobs = {}
    /\ ready_jobs = {}
    /\ omitforce = {}
    /\ priority = {}
    /\ phase = "new"
    /\ error = "none"
    /\ running = {}
    /\ first = {}

\* init on a file system of any age pattern
NextAged == DoInit

SpecAged == InitAged /\ [][NextAged]_vars

-----------------------------------------------------------------------------
(* Graph notions used by the properties *)

Producers(job) == DOMAIN MapGet(dependencies, job)
Consumers(job) == DOMAIN MapGet(depending, job)
EdgeFiles(job, p) == FilesGet(MapGet(dependencies, job), p)
RevEdgeFiles(p, job) == FilesGet(MapGet(depending, p), job)

\* the jobs reached from the jobs of S by following dependencies, S included
RECURSIVE Upstream(_)
Upstream(S) ==
    LET T == S \cup UNION {Producers(j) : j \in S}
    IN  IF T = S THEN S ELSE Upstream(T)

\* every job the DAG holds in an edge map or in one of its sets
GraphJobs ==
    DOMAIN dependencies \cup DOMAIN depending
    \cup UNION {Producers(j) : j \in DOMAIN dependencies}
    \cup UNION {Consumers(j) : j \in DOMAIN depending}
    \cup needrun \cup finished \cup dynamic \cup ready_jobs

\* the last operation returned normally
Returned == phase = "run"

-----------------------------------------------------------------------------
(* Properties *)

\* C1: after init, postprocess and any finish calls, every job in ready_jobs
\* is in needrun and is not in finished
ReadyInNeedrunNotFinished ==
    Returned => ready_jobs \subseteq needrun \ finished

\* C2: every job in ready_jobs has all its producers that are in needrun
\* already in finished
ReadyProducersFinished ==
    Returned => \A job \in ready_jobs : (Producers(job) \cap needrun) \subseteq finished

\* C4: the two edge maps mirror each other: f is in dependencies[j][p] iff
\* f is in depending[p][j]
EdgeMapsMirror ==
    \A j \in Jobs, p \in Jobs : EdgeFiles(j, p) = RevEdgeFiles(p, j)

\* a finish has replaced the dynamic job split and its consumer merge: update,
\* delete_job, replace_job and update_dynamic have all acted on the edge maps,
\* and a consumer of merge was re-attached to the replacement
EdgeMapsMirrorWitness ==
    /\ Returned
    /\ "split_" \in finished
    /\ EdgeFiles("merge_", "split_") = {"d"}
    /\ \E j \in Jobs : EdgeFiles(j, "merge_") # {}

\* C5: the dependency graph is acyclic: following dependencies from a job
\* never leads back to it
Acyclic ==
    Returned => \A j \in Jobs : j \notin Upstream(Producers(j))

\* C3: when the executor loop has run out of work (ready_jobs is empty and
\* nothing is running), every job in needrun is in finished: no needrun job
\* is left unfinished and never ready
FinishProgress ==
    Returned /\ ready_jobs = {} /\ running = {} => needrun \subseteq finished

-----------------------------------------------------------------------------
(* update as init calls it for one target file, on the DAG as constructed *)

Candidates(f) == file2jobs(Dag, f)
\* update_one of the candidate returns normally
Expands(job, f) == f \notin input(job) /\ update_(Dag, job, {}, FALSE).status = "ok"
Expanding(f) == {job \in Range(Candidates(f)) : Expands(job, f)}
UpdateOf(f) == update(Dag, Candidates(f), f, {}, FALSE)
\* AmbiguousRule raised while a candidate's own inputs are resolved
NestedAmbiguity(f) ==
    \E job \in Range(Candidates(f)) :
        update_(Dag, job, {}, FALSE).status = "AmbiguousRule"

\* C6: update surfaces a buffered MissingInput or Cyclic error only if no
\* candidate expanded: when some candidate's update_one succeeds, update
\* returns a producer or raises AmbiguousRule
BufferedErrorOnlyIfAllFailed ==
    phase = "new" =>
        \A f \in targetfiles :
            Expanding(f) # {} =>
                UpdateOf(f).status \notin {"MissingInput", "CyclicGraph"}

\* C7: with ignore_ambiguity off, update raises AmbiguousRule for a file only
\* when two candidates that both expanded tie as the most preferred ones
AmbiguousOnlyOnTie ==
    phase = "new" /\ ~ignore_ambiguity =>
        \A f \in targetfiles :
            UpdateOf(f).status = "AmbiguousRule" /\ ~NestedAmbiguity(f) =>
                \E j1 \in Expanding(f), j2 \in Expanding(f) :
                    /\ j1 # j2
                    /\ ~JobLt(j1, j2) /\ ~JobLt(j2, j1)
                    /\ \A k \in Expanding(f) : ~JobLt(j1, k)

\* C8: with ignore_ambiguity on, update never raises AmbiguousRule and the
\* producer it returns is preferred by the job order: no candidate that
\* expanded is strictly preferred over it
IgnoreAmbiguityPrefers ==
    phase = "new" /\ ignore_ambiguity =>
        \A f \in targetfiles :
            /\ UpdateOf(f).status # "AmbiguousRule"
            /\ UpdateOf(f).status = "ok" =>
                   \A k \in Expanding(f) : ~JobLt(UpdateOf(f).producer, k)

\* C9: after init and after every finish, every job in an edge map or in
\* needrun, finished, dynamic or ready_jobs is reachable from a target job by
\* following dependencies
TargetReachability ==
    Returned => GraphJobs \subseteq Upstream(targetjobs)

\* C10: for every job in the graph, each input file is supplied by a producer
\* recorded in dependencies[job] or exists on disk
Coverage ==
    Returned =>
        \A job \in GraphJobs : \A f \in input(job) :
            \/ \E p \in Producers(job) : f \in EdgeFiles(job, p)
            \/ exists(f)

-----------------------------------------------------------------------------
(* Temp files *)

\* a consumer of p other than job that is not finished takes f from p
OtherUnfinishedConsumer(p, f, job) ==
    \E j \in Consumers(p) \ {job} : j \notin finished /\ f \in RevEdgeFiles(p, j)

\* C11: handle_temp(job) removes a temp output f that job takes from its
\* producer p if and only if no unfinished consumer of p other than job takes
\* f from p; a temp file another unfinished consumer requires is not removed
TempRemovedIffUnneeded ==
    [][\A job \in Jobs :
          Run(job) /\ ~dryrun =>
              \A p \in Producers(job) :
                  \A f \in temp_output(p) \cap EdgeFiles(job, p) :
                      exists(f) =>
                          (mtime'[f] = 0 <=> ~OtherUnfinishedConsumer(p, f, job))]_vars

\* a2b and a2c both take the temp file a from src, which ran; a2b is finished
\* and the handle_temp of a2c has removed a
TempRemovedIffUnneededWitness ==
    /\ Returned /\ ~dryrun
    /\ "src" \in finished
    /\ EdgeFiles("a2b", "src") = {"a"} /\ EdgeFiles("a2c", "src") = {"a"}
    /\ "a2b" \in finished /\ "a2c" \in running
    /\ ~exists("a")

\* the consumers that take the file f from its producer p
ConsumersOf(p, f) == {j \in Consumers(p) : f \in RevEdgeFiles(p, j)}

\* C12: a temp file consumed by several needrun jobs has been removed once
\* all of its consumers are finished, whatever the order in which the executor
\* interleaved their handle_temp and finish calls
TempRemovedWhenConsumersFinished ==
    Returned /\ ~dryrun =>
        \A p \in Jobs : \A f \in temp_output(p) :
            /\ Cardinality(ConsumersOf(p, f)) >= 2
            /\ ConsumersOf(p, f) \subseteq needrun \cap finished
            => ~exists(f)

-----------------------------------------------------------------------------
(* Dynamic replacement *)

\* update_dynamic has replaced the job j that has dynamic output: replace_rule
\* took its rule out of rules
DynamicReplaced(j) == dynamic_output(j) # {} /\ j \in workflow /\ j \notin rules

\* the jobs that are a key or an entry of an edge map
EdgeJobs ==
    DOMAIN dependencies \cup DOMAIN depending
    \cup UNION {Producers(j) : j \in DOMAIN dependencies}
    \cup UNION {Consumers(j) : j \in DOMAIN depending}

\* C13: after update_dynamic has replaced a job j that has dynamic output by
\* its concretised job, j is absent from both edge maps and from needrun,
\* finished, ready_jobs and targetjobs, and following dependencies from the
\* target jobs reaches the concretised job and never j
ReplacedJobAbsent ==
    Returned =>
        \A j \in Jobs :
            DynamicReplaced(j) =>
                /\ j \notin EdgeJobs
                /\ j \notin needrun \cup finished \cup ready_jobs \cup targetjobs
                /\ RuleDef[j].branch \in Upstream(targetjobs)
                /\ j \notin Upstream(targetjobs)

\* C14: a finished job stays in the graph and in finished in every later
\* state, unless it is a job handed to replace_job; a finished producer of a
\* replaced dynamic job is not dropped by the recursive delete
FinishedStays ==
    [][phase' = "run" =>
          \A j \in finished :
              RuleDef[j].branch = None => j \in finished' /\ j \in EdgeJobs']_vars

-----------------------------------------------------------------------------
(* postprocess and update_needrun as functions of the DAG *)

\* the results of postprocess the caller observes
SameAnalysis(d1, d2) ==
    /\ d1.needrun = d2.needrun
    /\ d1.ready_jobs = d2.ready_jobs
    /\ d1.reason = d2.reason
    /\ d1.priority = d2.priority

\* C15: a second postprocess directly after a first one, with nothing changed
\* in between, leaves needrun, ready_jobs, every job's reason and every job's
\* priority as the first one left them
PostprocessIdempotent ==
    Returned =>
        LET Again(d1) == SameAnalysis(d1, postprocess(d1))
        IN  Again(postprocess(Dag))

\* a returned state in which a postprocess changes the analysis: a file has
\* been removed or written since the last one
PostprocessIdempotentWitness ==
    /\ Returned
    /\ postprocess(Dag).needrun # needrun
    /\ postprocess(Dag).ready_jobs # ready_jobs
    /\ postprocess(Dag).reason # reason

-----------------------------------------------------------------------------
(* init as a function of the run *)

\* C16: two runs of init on the same rules, targets, force settings and file
\* system produce the same dependencies map, the same selected producers, the
\* same dynamic set and the same needrun, whatever the iteration order of the
\* sets of rules, of target jobs and of input files
InitOrderIndependent ==
    phase # "new" =>
        \A o \in first :
            /\ InitOutcome[1] = o[1]
            /\ o[1] = "none" => InitOutcome = o

-----------------------------------------------------------------------------
(* update_needrun as a function of forcerules *)

\* the DAG init has built when it calls update_needrun (lines 63-76)
Resolved ==
    LET AfterRules(r1) ==
            IF r1.status # "ok" THEN r1
            ELSE InitFiles(r1.d, FileSeq(targetfiles), {})
    IN  AfterRules(InitRules(Dag, JobSeq(targetrules)))

\* the DAG d with the rule added to forcerules
Forced(d, rule) == [d EXCEPT !.forcerules = @ \cup {rule}]

\* update_needrun with a rule forced keeps every job it yields without
ForceKeeps(d) ==
    LET Keeps(nr) == \A rule \in d.rules : nr \subseteq update_needrun(Forced(d, rule)).needrun
    IN  Keeps(update_needrun(d).needrun)

\* C17: for the same graph and file system, update_needrun with a rule added
\* to forcerules yields a superset of the needrun it yields without: forcing
\* never removes a job from needrun
ForceMonotone ==
    /\ phase = "new" =>
           LET OnGraph(r) == r.status = "ok" => ForceKeeps(r.d)
           IN  OnGraph(Resolved)
    /\ Returned => ForceKeeps(Dag)

\* init has returned with some jobs in needrun, and forcing one more rule
\* adds a job that is not in needrun without it
ForceMonotoneWitness ==
    /\ Returned /\ finished = {} /\ running = {}
    /\ needrun # {}
    /\ update_needrun(Dag).needrun = needrun
    /\ \E rule \in rules \ forcerules :
           /\ needrun \subseteq update_needrun(Forced(Dag, rule)).needrun
           /\ needrun # update_needrun(Forced(Dag, rule)).needrun

-----------------------------------------------------------------------------
(* init with target files no rule produces *)

\* file2jobs(f) raises MissingRuleException
NoProducingRule(f) == Candidates(f) = <<>>

\* C18: if one or more target files have no producing rule, init still
\* attempts every target file, then fails with the one combined error, and it
\* fails before update_needrun runs: needrun and ready_jobs are empty and no
\* job can be started
MissingRuleFailsInit ==
    [][phase = "new" /\ phase' # "new" /\ (\E f \in targetfiles : NoProducingRule(f)) =>
          /\ phase' = "failed"
          /\ error' = "RuleException"
          /\ \A f \in targetfiles :
                 ~NoProducingRule(f) => \E j \in targetjobs' : f \in output(j)
          /\ needrun' = {}
          /\ ready_jobs' = {}]_vars

\* the targets other than the files without a rule resolve without an error
OtherTargetsResolve ==
    LET HasRule(f) == ~NoProducingRule(f)
        AfterRules(r1) ==
            /\ r1.status = "ok"
            /\ InitFiles(r1.d, SelectSeq(FileSeq(targetfiles), HasRule), {}).status = "ok"
    IN  AfterRules(InitRules(Dag, JobSeq(targetrules)))

\* C18, amended: if one or more target files have no producing rule, init
\* fails before update_needrun runs, needrun and ready_jobs are empty and no
\* job can be started; if every other target resolves, init attempts every
\* target file and fails with the one combined error, otherwise the error of
\* the other target is raised instead
MissingRuleFailsInitAmended ==
    [][phase = "new" /\ phase' # "new" /\ (\E f \in targetfiles : NoProducingRule(f)) =>
          /\ phase' = "failed"
          /\ needrun' = {}
          /\ ready_jobs' = {}
          /\ error' \in {"RuleException", "MissingInput", "CyclicGraph", "AmbiguousRule"}
          /\ OtherTargetsResolve <=> error' = "RuleException"
          /\ error' = "RuleException" =>
                 \A f \in targetfiles :
                     ~NoProducingRule(f) => \E j \in targetjobs' : f \in output(j)]_vars

\* init has failed with the combined error: no rule produces the target file
\* b, which comes first, and the target file c was resolved after it
MissingRuleFailsInitWitness ==
    /\ phase = "failed" /\ error = "RuleException"
    /\ hashorder = "fwd"
    /\ targetfiles = {"b", "c"}
    /\ NoProducingRule("b")
    /\ \E j \in targetjobs : "c" \in output(j)
    /\ needrun = {} /\ ready_jobs = {}

-----------------------------------------------------------------------------
(* The ready set and the need-run set after the analysis *)

\* the jobs of needrun that are not finished and whose producers in needrun
\* are all finished
RunnableJobs ==
    {job \in needrun : job \notin finished /\ (Producers(job) \cap needrun) \subseteq finished}

\* the step is an operation that returns from postprocess: init, postprocess
\* itself, or the finish of a job whose update_dynamic replaced it
EndsWithPostprocess ==
    /\ phase' = "run"
    /\ \/ phase = "new"
       \/ Postprocess
       \/ \E job \in Jobs : Finish(job) /\ dynamic_output(job) # {} /\ rules' # rules

\* C19: when update_ready, and hence postprocess, returns, ready_jobs is
\* exactly the set of the jobs in needrun that are not finished and whose
\* needrun producers are all finished: no entry is left over from before the
\* call and no such job is missed
ReadyExactAfterPostprocess ==
    [][EndsWithPostprocess => ready_jobs' = RunnableJobs']_vars

\* some field of the reason is set: Reason.__bool__, or incomplete_output
HasReason(job) == ReasonBool(reason[job]) \/ reason[job].incomplete_output # {}

\* C20: after update_needrun returns and after every finish returns, a job
\* is in needrun if and only if its reason is non-empty, and len(dag) is the
\* size of needrun
NeedrunIffReason ==
    Returned =>
        /\ \A job \in Jobs : job \in needrun <=> HasReason(job)
        /\ len = Cardinality(needrun)

-----------------------------------------------------------------------------
(* needrun after the propagation of update_needrun *)

\* every consumer of a needrun job is in needrun, with the files it takes
\* from that job in its updated_input_run
ClosedDownstream ==
    \A job \in needrun : \A c \in Consumers(job) :
        /\ c \in needrun
        /\ RevEdgeFiles(job, c) \subseteq reason[c].updated_input_run

\* every producer of a needrun job that misses a file it supplies to it, or
\* that Persistence reports incomplete, is in needrun
ClosedUpstream ==
    \A job \in needrun : \A p \in Producers(job) :
        missing_output(p, EdgeFiles(job, p)) # {} \/ p \in incomplete
            => p \in needrun

\* C21: after update_needrun, needrun is closed under propagation: the
\* consumers of a needrun job are in needrun and record the files they take
\* from it in updated_input_run; the producers of a needrun job that miss a
\* file they supply or are incomplete are in needrun, so a producer that stays
\* outside needrun has all the files it supplies on disk
NeedrunClosed ==
    [][EndsWithPostprocess => ClosedDownstream' /\ ClosedUpstream']_vars

-----------------------------------------------------------------------------
(* The seeding pass of update_needrun *)

\* the seeding pass leaves the reason of job empty before it looks at the
\* age of the inputs
SeedEmpty(d, job) ==
    LET Empty(r) == ~r.forced /\ ~r.noio /\ r.missing_output = {}
                    /\ r.updated_input_run = {}
    IN  Empty(SeedReason(d, job))

\* the mtimes of the existing outputs of all jobs reached from job in the
\* consumer direction, job included
DownstreamMtimes(d, job) ==
    {mtime[f] : f \in {x \in UNION {expanded_output(j) :
                                      j \in Range(bfs(d.depending, <<job>>, {}))} :
                          exists(x)}}

\* the existing inputs of job newer than the oldest of these outputs
NewerThanOldest(d, job) ==
    LET Newer(ts) == IF ts = {} THEN {}
                     ELSE {f \in input(job) : exists(f) /\ is_newer(f, SetMin(ts))}
    IN  Newer(DownstreamMtimes(d, job))

\* C22: in the seeding pass of update_needrun, for a job whose reason is
\* still empty, updated_input is the set of its existing inputs newer than
\* the minimum mtime over all existing outputs of all jobs reachable from it
\* in the consumer direction, not just of the first such job met
SeedUsesOldestOutput ==
    phase = "new" =>
        LET OnGraph(r) ==
                r.status = "ok" =>
                    \A job \in Range(jobs(r.d)) :
                        SeedEmpty(r.d, job) =>
                            SeedReason(r.d, job).updated_input = NewerThanOldest(r.d, job)
        IN  OnGraph(Resolved)

-----------------------------------------------------------------------------
(* replace_job as update_dynamic calls it *)

\* the jobs replace_job can be handed: their rule has a concretised branch
Replaceable(d) == {j \in DOMAIN d.dependencies : RuleDef[j].branch # None}

\* replace_job(j, newjob) on the DAG d, after replace_rule as in update_dynamic
ReplaceIn(d, j) == replace_job(replace_rule(d, j, RuleDef[j].branch), j, RuleDef[j].branch)

\* the outcome r of replace_job(j, newjob) on the DAG d keeps the consumers
\* of j, and its finished and target job membership
KeepsConsumers(d, j, r) ==
    LET newjob == RuleDef[j].branch
        old == Rdeps(d, j)
    IN  /\ \A k \in DOMAIN old :
              dynamic_input(k) = {} =>
                  /\ FilesGet(MapGet(r.d.dependencies, k), newjob) = old[k]
                  /\ FilesGet(MapGet(r.d.depending, newjob), k) = old[k]
                  /\ j \notin DOMAIN MapGet(r.d.dependencies, k)
                  /\ k \notin DOMAIN MapGet(r.d.depending, j)
        /\ j \in d.finished => newjob \in r.d.finished
        /\ j \in d.targetjobs => newjob \in r.d.targetjobs /\ j \notin r.d.targetjobs

\* replace_job on d keeps the consumers of every job it can be handed
ReplaceKeeps(d) ==
    \A j \in Replaceable(d) :
        LET Post(r) == r.status = "ok" => KeepsConsumers(d, j, r)
        IN  Post(ReplaceIn(d, j))

\* the DAG when finish(job) calls update_dynamic (lines 347-352)
AtUpdateDynamic(job) ==
    LET Readied(d1) ==
            [d1 EXCEPT !.ready_jobs = @ \cup
                {job_ \in DOMAIN Rdeps(d1, job) : dag_ready(d1, job_)}]
    IN  Readied([Dag EXCEPT !.finished = @ \cup {job}, !.ready_jobs = @ \ {job}])

\* finish(job) is about to replace job: it ran, it has dynamic output and
\* its expanded output is on disk
Replacing(job) ==
    /\ job \in running \cap ready_jobs
    /\ dynamic_output(job) # {}
    /\ dynamic_wildcards(job) # {}

\* C23: replace_job(j, j') keeps the consumers of j: every consumer whose
\* rule has no dynamic input has afterwards an edge to j' with exactly the
\* files it had from j, in both edge maps, and no edge to j; if j was finished
\* j' is finished, and if j was a target job j' is a target job and j is not
ReplaceJobKeepsConsumers ==
    Returned =>
        /\ ReplaceKeeps(Dag)
        /\ \A job \in Jobs :
               Replacing(job) =>
                   LET First(d0) ==
                           LET Second(r1) == r1.status = "ok" => ReplaceKeeps(r1.d)
                           IN  /\ ReplaceKeeps(d0)
                               /\ Second(ReplaceIn(d0, job))
                   IN  First(AtUpdateDynamic(job))

\* finish(split) is about to replace split and then its consumer merge, which
\* is a target job and supplies c to c2a: replace_job(merge, merge_) succeeds
\* on the DAG that replace_job(split, split_) leaves
ReplaceJobKeepsConsumersWitness ==
    /\ Returned
    /\ Replacing("split")
    /\ "merge" \in targetjobs
    /\ EdgeFiles("c2a", "merge") = {"c"}
    /\ LET Second(r1) ==
               /\ r1.status = "ok"
               /\ "merge" \in Replaceable(r1.d)
               /\ "split_" \in r1.d.finished
               /\ ReplaceIn(r1.d, "merge").status = "ok"
       IN  Second(ReplaceIn(AtUpdateDynamic("split"), "split"))

-----------------------------------------------------------------------------
(* finish of a job with dynamic output *)

\* finish(job) re-expands job: update_dynamic returns the new job
Reexpands(job) ==
    /\ Finish(job)
    /\ Replacing(job)
    /\ phase' = "run"

\* finish(job) finds no dynamic wildcards: update_dynamic returns at once
NoWildcards(job) ==
    /\ Finish(job)
    /\ job \in ready_jobs
    /\ dynamic_output(job) # {}
    /\ dynamic_wildcards(job) = {}

\* C24: when finish(j) re-expands a job j with dynamic output into j', then
\* after finish returns j' is in needrun and in finished and not in ready_jobs,
\* and the postprocess that follows does not mark j' as forced; j' (recorded in
\* omitforce) is in ready_jobs in no later state and is never marked forced;
\* when the dynamic wildcards are empty, finish moves j from ready_jobs to
\* finished and leaves the graph, needrun and the rule set unchanged
FinishReexpands ==
    [][/\ \A job \in Jobs :
              Reexpands(job) =>
                  /\ RuleDef[job].branch \in needrun'
                  /\ RuleDef[job].branch \in finished'
                  /\ RuleDef[job].branch \notin ready_jobs'
                  /\ ~reason'[RuleDef[job].branch].forced
       /\ \A job \in Jobs :
              NoWildcards(job) =>
                  /\ dependencies' = dependencies
                  /\ depending' = depending
                  /\ needrun' = needrun
                  /\ rules' = rules
                  /\ finished' = finished \cup {job}
                  /\ job \notin ready_jobs'
       /\ phase' = "run" =>
              \A j \in omitforce' : j \notin ready_jobs' /\ ~reason'[j].forced]_vars

====
